---- MODULE Spec2Model ----
(***************************************************************************)
(* A model of Constructive-Transfer-Learning/transfer3_fp_freesolv.py:     *)
(* molecule featurisation (DataSet), CSV loading (load_data), the graph    *)
(* convolution forward pass (Transfer.forward), the partial checkpoint     *)
(* transfer (Transfer.load_model, Transfer.freeze), the training loop and  *)
(* the learning-rate schedule (reduce_lr).                                 *)
(*                                                                         *)
(* Floating-point tensors are modelled by integers.  Python values that    *)
(* are compared across types (one_of_k_encoding) carry a type tag.         *)
(***************************************************************************)
EXTENDS Integers, Sequences, FiniteSets, TLC

VARIABLES
    \* ---- get_atom_feature applied to one atom
    fpc, atom, atom_feature,
    \* ---- load_data and the two DataSet objects of the script
    dpc, csv, line_no, smiles_list, freeE_list, train_dataset, test_dataset,
    \* ---- Transfer.forward, run side by side on two inputs
    wpc, net, fA, fn, fx, retval, layer,
    \* ---- Transfer.load_model / Transfer.freeze as methods
    lpc, lmodel, lgrad, larg, lglobal, lbefore,
    \* ---- the script from line 180 on: model, optimizer, training loop
    tpc, model, requires_grad, pretrain_dict, lr, opt_lr, opt_steps,
    epoch, i_batch, epoch_loss, loss_list, calls

featVars  == <<fpc, atom, atom_feature>>
dataVars  == <<dpc, csv, line_no, smiles_list, freeE_list, train_dataset, test_dataset>>
fwdVars   == <<wpc, net, fA, fn, fx, retval, layer>>
loadVars  == <<lpc, lmodel, lgrad, larg, lglobal, lbefore>>
trainVars == <<tpc, model, requires_grad, pretrain_dict, lr, opt_lr, opt_steps,
               epoch, i_batch, epoch_loss, loss_list, calls>>
vars == <<featVars, dataVars, fwdVars, loadVars, trainVars>>

\* The parts of the program a specification does not run stay in these states.
FeatIdle  == fpc = "idle" /\ atom = <<>> /\ atom_feature = <<>>
DataIdle  == /\ dpc = "idle" /\ csv = <<>> /\ line_no = 0
             /\ smiles_list = <<>> /\ freeE_list = <<>>
             /\ train_dataset = <<>> /\ test_dataset = <<>>
FwdIdle   == /\ wpc = "idle" /\ net = <<>> /\ fA = <<>> /\ fn = 0
             /\ fx = <<>> /\ retval = <<>> /\ layer = 0
LoadIdle  == /\ lpc = "idle" /\ lmodel = <<>> /\ lgrad = <<>>
             /\ larg = <<>> /\ lglobal = <<>> /\ lbefore = <<>>
TrainIdle == /\ tpc = "idle" /\ model = <<>> /\ requires_grad = <<>>
             /\ pretrain_dict = <<>> /\ lr = 0 /\ opt_lr = 0 /\ opt_steps = 0
             /\ epoch = 0 /\ i_batch = 0 /\ epoch_loss = <<>> /\ loss_list = <<>>
             /\ calls = 0

----------------------------------------------------------------------------
(* Sequence helpers *)

RECURSIVE SumSeq(_)
SumSeq(s) == IF s = <<>> THEN 0 ELSE Head(s) + SumSeq(Tail(s))

Abs(x) == IF x < 0 THEN -x ELSE x

----------------------------------------------------------------------------
(* Featurisation: DataSet.one_of_k_encoding, DataSet.get_atom_feature *)

\* Python values with their type: 'ELSE' == 2 is False in Python, never an error.
PyStr(s) == [t |-> "str", v |-> s]
PyInt(n) == [t |-> "int", v |-> n]
PyEq(a, b) == a.t = b.t /\ a.v = b.v

SymbolSet == <<PyStr("C"), PyStr("N"), PyStr("O"), PyStr("F"), PyStr("ELSE")>>
ChargeSet == <<PyInt(-1), PyInt(0), PyInt(1), PyStr("ELSE")>>
NumHsSet  == <<PyInt(0), PyInt(1), PyInt(2), PyInt(3), PyInt(4), PyStr("ELSE")>>

\* bool -> the 0/1 it becomes in the numeric feature array
Bit(b) == IF b THEN 1 ELSE 0

PyIn(x, allowable_set) == \E k \in DOMAIN allowable_set : PyEq(x, allowable_set[k])

one_of_k_encoding_first(x, allowable_set) ==
    LET y == IF ~PyIn(x, allowable_set) THEN allowable_set[1] ELSE x
    IN  [k \in DOMAIN allowable_set |-> Bit(PyEq(y, allowable_set[k]))]

one_of_k_encoding(x, allowable_set) ==
    LET y == IF ~PyIn(x, allowable_set) THEN allowable_set[Len(allowable_set)] ELSE x
    IN  [k \in DOMAIN allowable_set |-> Bit(PyEq(y, allowable_set[k]))]

\* a: one atom of a molecule, [sym, chg, hs, arom]
AtomFeature(a) ==
    one_of_k_encoding(PyStr(a.sym), SymbolSet)
        \o one_of_k_encoding(PyInt(a.chg), ChargeSet)
        \o one_of_k_encoding(PyInt(a.hs), NumHsSet)
        \o <<Bit(a.arom)>>

get_atom_feature(m, atom_i) == AtomFeature(m.atoms[atom_i])

\* Atoms the featuriser is applied to on its own.
Symbols == {"C", "N", "O", "F", "S", "Cl"}
MaxCharge == 2
MaxHs == 5
AtomDomain == [sym : Symbols, chg : (-MaxCharge)..MaxCharge, hs : 0..MaxHs, arom : BOOLEAN]

FeatInit ==
    /\ fpc = "start" /\ atom \in AtomDomain /\ atom_feature = <<>>
    /\ DataIdle /\ FwdIdle /\ LoadIdle /\ TrainIdle

GetAtomFeature ==
    /\ fpc = "start"
    /\ atom_feature' = AtomFeature(atom)
    /\ fpc' = "done"
    /\ UNCHANGED <<atom, dataVars, fwdVars, loadVars, trainVars>>

FeatNext == GetAtomFeature

SpecFeat == FeatInit /\ [][FeatNext]_vars

\* C7: get_atom_feature returns 16 entries: a 5-way element group, a 4-way
\* formal-charge group, a 6-way hydrogen-count group and the aromaticity flag;
\* in each group exactly the entry of the atom's value is set, and a value
\* outside the vocabulary sets exactly the last entry of its group.
SymbolPos(sym) == CASE sym = "C" -> 1 [] sym = "N" -> 2 [] sym = "O" -> 3
                    [] sym = "F" -> 4 [] OTHER -> 5
ChargePos(chg) == IF chg \in {-1, 0, 1} THEN 5 + chg + 2 ELSE 5 + 4
NumHsPos(hs)   == IF hs \in 0..4 THEN 9 + hs + 1 ELSE 9 + 6

C7_OneHotGroups ==
    fpc = "done" =>
        /\ Len(atom_feature) = 16
        /\ \A k \in 1..5   : atom_feature[k] = Bit(k = SymbolPos(atom.sym))
        /\ \A k \in 6..9   : atom_feature[k] = Bit(k = ChargePos(atom.chg))
        /\ \A k \in 10..15 : atom_feature[k] = Bit(k = NumHsPos(atom.hs))
        /\ atom_feature[16] = Bit(atom.arom)

\* an atom outside all three vocabularies has been encoded
C7_Witness ==
    /\ fpc = "done"
    /\ atom.sym = "S" /\ atom.chg = 2 /\ atom.hs = 5 /\ atom.arom
    /\ atom_feature[5] = 1 /\ atom_feature[9] = 1 /\ atom_feature[15] = 1

----------------------------------------------------------------------------
(* RDKit and the CSV file: the inputs of load_data *)

MaxRows == 3
max_num_atoms == 5

A(sym, chg, hs, arom) == [sym |-> sym, chg |-> chg, hs |-> hs, arom |-> arom]
Mol(atoms, bonds) == [ok |-> TRUE, atoms |-> atoms, bonds |-> bonds]
None == [ok |-> FALSE]

\* Chem.MolFromSmiles on the SMILES strings the model reads: the molecule's atoms
\* (symbol, formal charge, total hydrogens, aromaticity) in SMILES order and its
\* bonds, or None for a string RDKit cannot parse.
MolTable ==
    [s \in {"", "C", "CO", "C1CC1", "c1ccoc1", "c1ccccc1", "Cc1ccccc1", "[NH4+]", "C("} |->
        CASE s = ""   -> Mol(<<>>, {})      \* the empty string parses to a molecule of no atoms
          [] s = "C"  -> Mol(<<A("C", 0, 4, FALSE)>>, {})
          [] s = "CO" -> Mol(<<A("C", 0, 3, FALSE), A("O", 0, 1, FALSE)>>, {{1, 2}})
          [] s = "C1CC1" ->
                Mol(<<A("C", 0, 2, FALSE), A("C", 0, 2, FALSE), A("C", 0, 2, FALSE)>>,
                    {{1, 2}, {2, 3}, {1, 3}})
          [] s = "c1ccoc1" ->
                Mol(<<A("C", 0, 1, TRUE), A("C", 0, 1, TRUE), A("C", 0, 1, TRUE),
                      A("O", 0, 0, TRUE), A("C", 0, 1, TRUE)>>,
                    {{1, 2}, {2, 3}, {3, 4}, {4, 5}, {1, 5}})
          [] s = "c1ccccc1" ->
                Mol([i \in 1..6 |-> A("C", 0, 1, TRUE)],
                    {{1, 2}, {2, 3}, {3, 4}, {4, 5}, {5, 6}, {1, 6}})
          [] s = "Cc1ccccc1" ->
                Mol([i \in 1..7 |-> IF i = 1 THEN A("C", 0, 3, FALSE)
                                    ELSE IF i = 2 THEN A("C", 0, 0, TRUE)
                                    ELSE A("C", 0, 1, TRUE)],
                    {{1, 2}, {2, 3}, {3, 4}, {4, 5}, {5, 6}, {6, 7}, {2, 7}})
          [] s = "[NH4+]" -> Mol(<<A("N", 1, 4, FALSE)>>, {})
          [] s = "C(" -> None]

MolFromSmiles(smiles) == MolTable[smiles]
GetNumAtoms(m) == Len(m.atoms)
GetAdjacencyMatrix(m) ==
    [i \in 1..GetNumAtoms(m) |-> [j \in 1..GetNumAtoms(m) |-> Bit({i, j} \in m.bonds)]]

\* float(text): the value in hundredths; text outside the table raises ValueError.
FloatTable == [c \in {"-1.50", "0.25"} |-> IF c = "-1.50" THEN -150 ELSE 25]
FloatRaises(text) == text \notin DOMAIN FloatTable
float(text) == FloatTable[text]

\* The lines of the file after the header: name, SMILES, measured free energy.
Header == <<"iupac", "smiles", "expt">>
Lines ==
    { <<"methane", "C", "-1.50">>, <<"methanol", "CO", "0.25">>,
      <<"cyclopropane", "C1CC1", "-1.50">>, <<"furan", "c1ccoc1", "0.25">>,
      <<"benzene", "c1ccccc1", "-1.50">>, <<"toluene", "Cc1ccccc1", "0.25">>,
      <<"broken", "C(", "0.25">>, <<"broken", "C(", "n/a">>,
      <<"ammonium", "[NH4+]", "0.25">>, <<"empty", "", "-1.50">> }

RECURSIVE SeqsUpTo(_, _)
SeqsUpTo(S, n) ==
    IF n = 0 THEN {<<>>}
    ELSE LET shorter == SeqsUpTo(S, n - 1)
         IN  shorter \cup {Append(q, x) : q \in {r \in shorter : Len(r) = n - 1}, x \in S}

----------------------------------------------------------------------------
(* DataSet *)

FeatDim == 16

Zeros(rows, cols) == [i \in 1..rows |-> [j \in 1..cols |-> 0]]
Eye(n) == [i \in 1..n |-> [j \in 1..n |-> Bit(i = j)]]
MatAdd(X, Y) == [i \in DOMAIN X |-> [j \in DOMAIN X[i] |-> X[i][j] + Y[i][j]]]
\* padded[:n, :cols] = block
AssignBlock(padded, block, n, cols) ==
    [i \in DOMAIN padded |-> [j \in DOMAIN padded[i] |->
        IF i <= n /\ j <= cols THEN block[i][j] ELSE padded[i][j]]]

\* one iteration of the loop of process_data: (padded_feature, padded_adj) of smiles
PaddedFeature(smiles, max_atoms) ==
    LET m == MolFromSmiles(smiles)
        num_atoms == GetNumAtoms(m)
        atom_feat == [i \in 1..num_atoms |-> get_atom_feature(m, i)]
    IN  AssignBlock(Zeros(max_atoms, FeatDim), atom_feat, num_atoms, FeatDim)

PaddedAdj_eye_max(smiles, max_atoms) ==
    LET m == MolFromSmiles(smiles)
        num_atoms == GetNumAtoms(m)
    IN  MatAdd(AssignBlock(Zeros(max_atoms, max_atoms), GetAdjacencyMatrix(m),
                           num_atoms, num_atoms),
               Eye(max_atoms))

PaddedAdj(smiles, max_atoms) ==
    LET m == MolFromSmiles(smiles)
        num_atoms == GetNumAtoms(m)
        adj == MatAdd(GetAdjacencyMatrix(m), Eye(num_atoms))
    IN  AssignBlock(Zeros(max_atoms, max_atoms), adj, num_atoms, num_atoms)

\* DataSet.__init__ up to the call of process_data
NewDataSet(smiles, freeE, max_atoms) ==
    [smiles_list |-> smiles, freeE_list |-> freeE, max_num_atoms |-> max_atoms,
     feature_list |-> <<>>, adj_list |-> <<>>]

\* process_data, one molecule: the next SMILES of the data set
ProcessNext(ds) ==
    LET smiles == ds.smiles_list[Len(ds.feature_list) + 1]
    IN  [ds EXCEPT !.feature_list = Append(@, PaddedFeature(smiles, ds.max_num_atoms)),
                   !.adj_list = Append(@, PaddedAdj(smiles, ds.max_num_atoms))]

Processed(ds) == Len(ds.feature_list) = Len(ds.smiles_list)

----------------------------------------------------------------------------
(* load_data and the script's lines 164-178 *)

DataInit ==
    /\ dpc = "open"
    /\ csv \in {<<Header>> \o rows : rows \in SeqsUpTo(Lines, MaxRows)}
    /\ line_no = 0
    /\ smiles_list = <<>> /\ freeE_list = <<>>
    /\ train_dataset = <<>> /\ test_dataset = <<>>
    /\ FeatIdle /\ FwdIdle /\ LoadIdle /\ TrainIdle

\* open, csv.reader, next(data): the header is consumed
OpenCsv ==
    /\ dpc = "open"
    /\ line_no' = 1
    /\ dpc' = "read"
    /\ UNCHANGED <<csv, smiles_list, freeE_list, train_dataset, test_dataset>>
    /\ UNCHANGED <<featVars, fwdVars, loadVars, trainVars>>

\* whether a parsed molecule is left out
TooLarge_ge(mol, max_atoms) == GetNumAtoms(mol) >= max_atoms
TooLarge(mol, max_atoms) == GetNumAtoms(mol) > max_atoms

\* one iteration of "for line in data"
LoadLine ==
    /\ dpc = "read"
    /\ line_no < Len(csv)
    /\ LET line == csv[line_no + 1]
           smiles == line[2]
       IN  IF FloatRaises(line[Len(line)])
           THEN /\ dpc' = "ValueError"
                /\ UNCHANGED <<line_no, smiles_list, freeE_list>>
           ELSE LET freeE == float(line[Len(line)])
                    mol == MolFromSmiles(smiles)
                IN  /\ dpc' = "read"
                    /\ line_no' = line_no + 1
                    /\ IF ~mol.ok
                       THEN UNCHANGED <<smiles_list, freeE_list>>
                       ELSE IF TooLarge(mol, max_num_atoms)
                       THEN UNCHANGED <<smiles_list, freeE_list>>
                       ELSE /\ smiles_list' = Append(smiles_list, smiles)
                            /\ freeE_list' = Append(freeE_list, freeE)
    /\ UNCHANGED <<csv, train_dataset, test_dataset>>
    /\ UNCHANGED <<featVars, fwdVars, loadVars, trainVars>>

\* int(num_data * 0.8)
NumTrain(num_data) == (num_data * 8) \div 10

\* load_data returns; the lists are split and the training DataSet is created
LoadReturn ==
    /\ dpc = "read"
    /\ line_no = Len(csv)
    /\ LET num_test_data == NumTrain(Len(smiles_list))
       IN  train_dataset' = NewDataSet(SubSeq(smiles_list, 1, num_test_data),
                                       SubSeq(freeE_list, 1, num_test_data),
                                       max_num_atoms)
    /\ dpc' = "train_dataset"
    /\ UNCHANGED <<csv, line_no, smiles_list, freeE_list, test_dataset>>
    /\ UNCHANGED <<featVars, fwdVars, loadVars, trainVars>>

ProcessTrain ==
    /\ dpc = "train_dataset"
    /\ ~Processed(train_dataset)
    /\ train_dataset' = ProcessNext(train_dataset)
    /\ UNCHANGED <<dpc, csv, line_no, smiles_list, freeE_list, test_dataset>>
    /\ UNCHANGED <<featVars, fwdVars, loadVars, trainVars>>

NewTestDataSet ==
    /\ dpc = "train_dataset"
    /\ Processed(train_dataset)
    /\ LET num_data == Len(smiles_list)
           num_test_data == NumTrain(num_data)
       IN  test_dataset' = NewDataSet(SubSeq(smiles_list, num_test_data + 1, num_data),
                                      SubSeq(freeE_list, num_test_data + 1, num_data),
                                      max_num_atoms)
    /\ dpc' = "test_dataset"
    /\ UNCHANGED <<csv, line_no, smiles_list, freeE_list, train_dataset>>
    /\ UNCHANGED <<featVars, fwdVars, loadVars, trainVars>>

ProcessTest ==
    /\ dpc = "test_dataset"
    /\ ~Processed(test_dataset)
    /\ test_dataset' = ProcessNext(test_dataset)
    /\ UNCHANGED <<dpc, csv, line_no, smiles_list, freeE_list, train_dataset>>
    /\ UNCHANGED <<featVars, fwdVars, loadVars, trainVars>>

DataSetsReady ==
    /\ dpc = "test_dataset"
    /\ Processed(test_dataset)
    /\ dpc' = "done"
    /\ UNCHANGED <<csv, line_no, smiles_list, freeE_list, train_dataset, test_dataset>>
    /\ UNCHANGED <<featVars, fwdVars, loadVars, trainVars>>

DataNext ==
    \/ OpenCsv
    \/ LoadLine
    \/ LoadReturn
    \/ ProcessTrain
    \/ NewTestDataSet
    \/ ProcessTest
    \/ DataSetsReady

SpecData == DataInit /\ [][DataNext]_vars

----------------------------------------------------------------------------
(* Claims about load_data and DataSet.process_data *)

LastCell(line) == line[Len(line)]
RowsRead == SubSeq(csv, 2, line_no)
ParsesWithinBudget(line) ==
    LET m == MolFromSmiles(line[2]) IN m.ok /\ GetNumAtoms(m) <= max_num_atoms
RowsKept == SelectSeq(RowsRead, ParsesWithinBudget)
Loading == dpc \notin {"idle", "open"}

DataSets ==
    IF dpc \in {"train_dataset"} THEN {train_dataset}
    ELSE IF dpc \in {"test_dataset", "done"} THEN {train_dataset, test_dataset}
    ELSE {}

\* C6: for every molecule of n atoms a DataSet has processed, the feature matrix
\* is max_num_atoms x 16 and the adjacency max_num_atoms x max_num_atoms, the
\* top-left n x n block of the adjacency is the bond adjacency plus the identity,
\* and every feature row and every adjacency row and column past n is zero.
C6_PaddedTensors ==
    \A ds \in DataSets : \A k \in 1..Len(ds.feature_list) :
        LET m == MolFromSmiles(ds.smiles_list[k])
            n == Len(m.atoms)
            X == ds.feature_list[k]
            Adj == ds.adj_list[k]
            M == ds.max_num_atoms
        IN  /\ n <= M
            /\ DOMAIN X = 1..M /\ \A i \in 1..M : DOMAIN X[i] = 1..16
            /\ DOMAIN Adj = 1..M /\ \A i \in 1..M : DOMAIN Adj[i] = 1..M
            /\ Len(ds.adj_list) = Len(ds.feature_list)
            /\ \A i \in 1..n : X[i] = AtomFeature(m.atoms[i])
            /\ \A i, j \in 1..n :
                  Adj[i][j] = (IF {i, j} \in m.bonds THEN 1 ELSE 0) + (IF i = j THEN 1 ELSE 0)
            /\ \A i \in (n + 1)..M : \A j \in 1..16 : X[i][j] = 0
            /\ \A i, j \in 1..M : (i > n \/ j > n) => Adj[i][j] = 0

\* a ring of three atoms was padded to max_num_atoms
C6_Witness ==
    /\ dpc = "done"
    /\ Len(train_dataset.adj_list) >= 1
    /\ train_dataset.smiles_list[1] = "C1CC1"
    /\ train_dataset.adj_list[1][1][3] = 1
    /\ train_dataset.adj_list[1][3][3] = 1
    /\ train_dataset.adj_list[1][max_num_atoms][max_num_atoms] = 0
    /\ Len(test_dataset.feature_list) >= 1

----------------------------------------------------------------------------
(* Transfer: the layers and the forward pass *)

n_channel == 2          \* 128 in the script, scaled down
head_width == 2         \* 1024 in Transfer.__init__, scaled down
n_conv_layer == 3
d_out == 1
FwdAtoms == 3           \* rows of the padded tensors given to forward

\* nn.Linear(d_in, d_o) with weight a on the (wrapped) diagonal, b elsewhere, bias c
Linear(d_in, d_o, p) ==
    [weight |-> [o \in 1..d_o |-> [i \in 1..d_in |-> IF (i - o) % d_o = 0 THEN p[1] ELSE p[2]]],
     bias   |-> [o \in 1..d_o |-> p[3]]]

\* Transfer.__init__, with the parameters of the three groups of layers given
Transfer(pe, pw, ph) ==
    [embedding |-> Linear(FeatDim, n_channel, pe),
     W         |-> [k \in 1..n_conv_layer |-> Linear(n_channel, n_channel, <<pw[1], pw[2], pw[3] + k - 1>>)],
     fc        |-> Linear(n_channel, head_width, ph),
     linear1   |-> Linear(head_width, head_width, ph),
     linear2   |-> Linear(head_width, d_out, ph)]

RECURSIVE Dot(_, _, _)
Dot(u, v, k) == IF k = 0 THEN 0 ELSE u[k] * v[k] + Dot(u, v, k - 1)

\* a linear layer applied to a vector and to every row of a matrix
ApplyVec(lin, x) == [o \in DOMAIN lin.weight |-> Dot(lin.weight[o], x, Len(x)) + lin.bias[o]]
ApplyRows(lin, X) == [i \in DOMAIN X |-> ApplyVec(lin, X[i])]

SumRows(Adj, X, i, j) ==
    \* sum over k <= rows of Adj[i][k] * X[k][j]
    LET F[k \in 0..Len(X)] == IF k = 0 THEN 0 ELSE Adj[i][k] * X[k][j] + F[k - 1]
    IN  F[Len(X)]

\* torch.matmul(A, retval)
matmul_self_loops(Adj, X) ==
    [i \in DOMAIN X |-> [j \in DOMAIN X[i] |-> SumRows(Adj, X, i, j) + X[i][j]]]
matmul(Adj, X) == [i \in DOMAIN X |-> [j \in DOMAIN X[i] |-> SumRows(Adj, X, i, j)]]

ReLUScalar(v) == IF v > 0 THEN v ELSE 0
ReLU(X) == [i \in DOMAIN X |-> [j \in DOMAIN X[i] |-> ReLUScalar(X[i][j])]]

\* retval.mean(1): the mean over the atom axis, all max_num_atoms rows
MeanRows(X) ==
    LET rows == Len(X)
        ColSum[k \in 0..rows] == IF k = 0 THEN [j \in DOMAIN X[1] |-> 0]
                                 ELSE [j \in DOMAIN X[1] |-> X[k][j] + ColSum[k - 1][j]]
    IN  [j \in DOMAIN X[1] |-> ColSum[rows][j] \div rows]

\* torch.sigmoid in thousandths, rounded, flat beyond |v| = 4
sigmoid(v) ==
    LET t == <<18, 47, 119, 269, 500, 731, 881, 953, 982>>
    IN  IF v < -4 THEN t[1] ELSE IF v > 4 THEN t[9] ELSE t[v + 5]

\* lines 107-112: fc, sigmoid, linear1, relu, linear2 on the pooled vector
HeadOf(nn, pooled) ==
    LET h1 == ApplyVec(nn.fc, pooled)
        h2 == [k \in DOMAIN h1 |-> sigmoid(h1[k])]
        h3 == ApplyVec(nn.linear1, h2)
        h4 == [k \in DOMAIN h3 |-> ReLUScalar(h3[k])]
    IN  ApplyVec(nn.linear2, h4)

\* lines 103-105: one graph convolution layer
ConvLayer(lin, Adj, X) == ReLU(matmul(Adj, ApplyRows(lin, X)))

ParamMenu == {<<1, 0, 1>>, <<1, -1, 2>>}
RealRows == {AtomFeature(A("C", 0, 4, FALSE)), AtomFeature(A("O", 0, 0, TRUE))}
PadRows  == {[j \in 1..FeatDim |-> 0], [j \in 1..FeatDim |-> 1], [j \in 1..FeatDim |-> j - 3]}

\* adjacency of a graph on n atoms with self-loops, zero past n
GraphAdj(n, edges) ==
    [i \in 1..FwdAtoms |-> [j \in 1..FwdAtoms |->
        IF i <= n /\ j <= n /\ (i = j \/ {i, j} \in edges) THEN 1 ELSE 0]]
Pairs(n) == {{i, j} : i, j \in 1..n} \ {{i} : i \in 1..n}

FwdInit ==
    /\ wpc = "embedding"
    /\ net \in {Transfer(pe, pw, ph) : pe \in ParamMenu, pw \in ParamMenu, ph \in ParamMenu}
    /\ fn \in 0..FwdAtoms
    /\ fA \in {GraphAdj(fn, e) : e \in SUBSET Pairs(fn)}
    /\ \E real \in [1..fn -> RealRows], pad1 \in PadRows, pad2 \in PadRows :
          fx = << [i \in 1..FwdAtoms |-> IF i <= fn THEN real[i] ELSE pad1],
                  [i \in 1..FwdAtoms |-> IF i <= fn THEN real[i] ELSE pad2] >>
    /\ retval = fx
    /\ layer = 0
    /\ FeatIdle /\ DataIdle /\ LoadIdle /\ TrainIdle

\* retval = self.embedding(retval)
Embedding ==
    /\ wpc = "embedding"
    /\ retval' = [c \in 1..2 |-> ApplyRows(net.embedding, retval[c])]
    /\ wpc' = "conv"
    /\ UNCHANGED <<net, fA, fn, fx, layer>>
    /\ UNCHANGED <<featVars, dataVars, loadVars, trainVars>>

\* one iteration of "for w in self.W"
Conv ==
    /\ wpc = "conv"
    /\ layer < n_conv_layer
    /\ retval' = [c \in 1..2 |-> ConvLayer(net.W[layer + 1], fA, retval[c])]
    /\ layer' = layer + 1
    /\ UNCHANGED <<wpc, net, fA, fn, fx>>
    /\ UNCHANGED <<featVars, dataVars, loadVars, trainVars>>

\* retval = retval.mean(1)
MeanPool ==
    /\ wpc = "conv"
    /\ layer = n_conv_layer
    /\ retval' = [c \in 1..2 |-> MeanRows(retval[c])]
    /\ wpc' = "head"
    /\ UNCHANGED <<net, fA, fn, fx, layer>>
    /\ UNCHANGED <<featVars, dataVars, loadVars, trainVars>>

\* fc ... linear2, return
Head_ ==
    /\ wpc = "head"
    /\ retval' = [c \in 1..2 |-> HeadOf(net, retval[c])]
    /\ wpc' = "done"
    /\ UNCHANGED <<net, fA, fn, fx, layer>>
    /\ UNCHANGED <<featVars, dataVars, loadVars, trainVars>>

FwdNext == Embedding \/ Conv \/ MeanPool \/ Head_

SpecFwd == FwdInit /\ [][FwdNext]_vars

\* C8: the prediction is the same for two inputs that agree on the first n
\* feature rows and on the adjacency (zero past n), whatever the padded feature
\* rows hold, and after every aggregation followed by the activation the rows at
\* padded positions are zero.
C8_PaddingNeverContributes ==
    /\ wpc = "done" => retval[1] = retval[2]
    /\ (wpc = "conv" /\ layer >= 1) =>
          \A c \in 1..2 : \A i \in (fn + 1)..FwdAtoms : \A j \in 1..n_channel :
              retval[c][i][j] = 0

\* two inputs differing in their padding went through the network; before the
\* first aggregation their padded rows were not zero
C8_Witness ==
    /\ wpc = "done"
    /\ fn = 2
    /\ fx[1] # fx[2]
    /\ retval[1] = retval[2]
    /\ ApplyRows(net.embedding, fx[1])[FwdAtoms] # ApplyRows(net.embedding, fx[2])[FwdAtoms]
    /\ retval[1][1] > net.linear2.bias[1]

----------------------------------------------------------------------------
(* Transfer: state_dict, load_model, freeze *)

WLayers == {"W.0", "W.1", "W.2"}               \* self.W, n_conv_layer = 3
HeadLayers == {"fc", "linear1", "linear2"}
Layers == {"embedding"} \cup WLayers \cup HeadLayers
KeysOf(layers) == {<<l, p>> : l \in layers, p \in {"weight", "bias"}}
ModelKeys == KeysOf(Layers)

\* A tensor is known by where its contents come from and by the number of
\* optimizer updates applied to it since.
Tensor(from, key) == [from |-> from, key |-> key, upd |-> 0]

\* state_dict() and requires_grad of a newly constructed Transfer
FreshStateDict == [k \in ModelKeys |-> Tensor("init", k)]
FreshRequiresGrad == [k \in ModelKeys |-> TRUE]

\* a checkpoint file holding the given layers ("fp" is a layer Transfer lacks)
Checkpoint(from, layers) == [k \in KeysOf(layers) |-> Tensor(from, k)]
CheckpointLayers == Layers \cup {"fp"}

\* load_model(self, pretrian_dict); the body reads the module-level name
\* pretrain_dict, given here as global_pretrain_dict
load_model(self_state, pretrian_dict, global_pretrain_dict) ==
    LET model_dict == self_state
        load_dict == [key \in DOMAIN model_dict |->
                        IF key \in DOMAIN global_pretrain_dict
                        THEN global_pretrain_dict[key]
                        ELSE model_dict[key]]
    IN  load_dict     \* load_state_dict(load_dict, strict = True)

\* freeze(self): requires_grad = False on the parameters of self.W
freeze(grad) == [k \in DOMAIN grad |-> IF k[1] \in WLayers THEN FALSE ELSE grad[k]]

\* The two methods called on a new model, with any checkpoint as the argument and
\* any (or the same) checkpoint bound to the module-level name.
GlobalMenu == {Checkpoint("B", L) : L \in {{}, {"embedding", "W.0"}, Layers, {"fc", "fp"}}}

LoadInit ==
    /\ lpc = "new"
    /\ lmodel = FreshStateDict
    /\ lgrad = FreshRequiresGrad
    /\ larg \in {Checkpoint("A", L) : L \in SUBSET CheckpointLayers}
    /\ lglobal \in {larg} \cup GlobalMenu
    /\ lbefore = <<>>
    /\ FeatIdle /\ DataIdle /\ FwdIdle /\ TrainIdle

CallLoadModel ==
    /\ lpc = "new"
    /\ lbefore' = lmodel
    /\ lmodel' = load_model(lmodel, larg, lglobal)
    /\ lpc' = "loaded"
    /\ UNCHANGED <<lgrad, larg, lglobal>>
    /\ UNCHANGED <<featVars, dataVars, fwdVars, trainVars>>

CallFreeze ==
    /\ lpc = "loaded"
    /\ lgrad' = freeze(lgrad)
    /\ lpc' = "frozen"
    /\ UNCHANGED <<lmodel, larg, lglobal, lbefore>>
    /\ UNCHANGED <<featVars, dataVars, fwdVars, trainVars>>

LoadNext == CallLoadModel \/ CallFreeze

SpecLoad == LoadInit /\ [][LoadNext]_vars

\* C4: after load_model(d), every key of the model holds d[key] when d has the
\* key and the value it held before the call otherwise; the model's key set is
\* unchanged and keys of d the model lacks are ignored.
C4_LoadsGivenCheckpoint ==
    lpc \in {"loaded", "frozen"} =>
        /\ DOMAIN lmodel = DOMAIN lbefore
        /\ \A k \in DOMAIN lmodel :
              lmodel[k] = IF k \in DOMAIN larg THEN larg[k] ELSE lbefore[k]

\* C3: after load_model(pretrain_dict) and freeze(), a parameter has gradients
\* disabled if and only if its key was transferred from the checkpoint.
C3_FrozenIffTransferred ==
    (lpc = "frozen" /\ larg = lglobal) =>
        \A k \in DOMAIN lmodel : (lgrad[k] = FALSE) <=> (k \in DOMAIN larg)

----------------------------------------------------------------------------
(* reduce_lr *)

\* Learning rates are held in units of 1e-10; lr * 0.95 rounds down to the unit.
Lr0 == 50000000
Mul95(rate) == (rate * 19) \div 20

\* loss_list[i] of Python: lists start at 0 and a negative index counts from the end
PyAt(list, i) == IF i >= 0 THEN list[i + 1] ELSE list[Len(list) + i + 1]

\* lines 146-148; the sum of the four absolute changes before the current one
RECURSIVE DifLoop(_, _, _)
DifLoop(list, e, i) ==
    IF i = 0 THEN 0
    ELSE DifLoop(list, e, i - 1) + Abs(PyAt(list, e - i) - PyAt(list, e - i - 1))

\* the value of "result" at line 153.  dif / 4 * 3 < |change| is evaluated on
\* the undivided sum: 3 * sum < 4 * |change|.
reduce_lr_result_gt(list, e) ==
    \/ e # 0 /\ PyAt(list, e) > PyAt(list, e - 1)
    \/ e >= 5 /\ DifLoop(list, e, 4) * 3 < 4 * Abs(PyAt(list, e) - PyAt(list, e - 1))

reduce_lr_result(list, e) ==
    \/ e # 0 /\ PyAt(list, e) >= PyAt(list, e - 1)
    \/ e >= 5 /\ DifLoop(list, e, 4) * 3 < 4 * Abs(PyAt(list, e) - PyAt(list, e - 1))

\* the returned lr and the lr of the optimizer's (single) parameter group
reduce_lr_at_epoch_0(list, e, rate, group_lr) ==
    IF reduce_lr_result(list, e) \/ e = 0
    THEN [lr |-> Mul95(rate), group_lr |-> Mul95(rate)]
    ELSE [lr |-> rate, group_lr |-> group_lr]

reduce_lr(list, e, rate, group_lr) ==
    IF reduce_lr_result(list, e)
    THEN [lr |-> Mul95(rate), group_lr |-> Mul95(rate)]
    ELSE [lr |-> rate, group_lr |-> group_lr]

\* the indices of loss_list that reduce_lr reads
reduce_lr_reads(e) ==
    {e} \cup (IF e # 0 THEN {e - 1} ELSE {})
        \cup (IF e >= 5 THEN UNION {{e - i, e - i - 1} : i \in 1..4} ELSE {})

----------------------------------------------------------------------------
(* The script from line 180: model, optimizer, training loop, evaluation *)

num_epoch == 6          \* 100 in the script, scaled down
NumBatches == 2         \* batches of train_dataloader
LossVals == {0, 1}      \* the MSE of one batch, in loss units

\* np.mean(epoch_loss), in units of 1/NumBatches of a loss unit (exact)
MeanDen == NumBatches
np_mean(arr) == (SumSeq(arr) * MeanDen) \div Len(arr)

\* optimizer.step(): Adam updates the parameters that received a gradient
optimizer_step(state, grad) ==
    [k \in DOMAIN state |-> IF grad[k] THEN [state[k] EXCEPT !.upd = @ + 1] ELSE state[k]]

\* torch.load('GCNtoFP.pt'): the layers the checkpoint file holds
CheckpointFiles ==
    {Checkpoint("GCNtoFP.pt", L) :
        L \in {{}, {"embedding"} \cup WLayers, Layers \cup {"fp"}, {"fc"}}}

TrainInit ==
    /\ tpc = "load_model"
    /\ model = FreshStateDict
    /\ requires_grad = FreshRequiresGrad
    /\ pretrain_dict \in CheckpointFiles
    /\ lr = 0 /\ opt_lr = 0 /\ opt_steps = 0
    /\ epoch = 0 /\ i_batch = 0 /\ epoch_loss = <<>> /\ loss_list = <<>>
    /\ calls = 0
    /\ FeatIdle /\ DataIdle /\ FwdIdle /\ LoadIdle

unchangedLoop == <<epoch, i_batch, epoch_loss, loss_list, calls>>

\* model.load_model(pretrain_dict)
LoadModel ==
    /\ tpc = "load_model"
    /\ model' = load_model(model, pretrain_dict, pretrain_dict)
    /\ tpc' = "freeze"
    /\ UNCHANGED <<requires_grad, pretrain_dict, lr, opt_lr, opt_steps, unchangedLoop>>
    /\ UNCHANGED <<featVars, dataVars, fwdVars, loadVars>>

\* model.freeze()
Freeze ==
    /\ tpc = "freeze"
    /\ requires_grad' = freeze(requires_grad)
    /\ tpc' = "optimizer"
    /\ UNCHANGED <<model, pretrain_dict, lr, opt_lr, opt_steps, unchangedLoop>>
    /\ UNCHANGED <<featVars, dataVars, fwdVars, loadVars>>

\* lines 184-190: lr, Adam over model.parameters(), loss_list = []
NewOptimizer ==
    /\ tpc = "optimizer"
    /\ lr' = Lr0
    /\ opt_lr' = Lr0
    /\ opt_steps' = 0
    /\ loss_list' = <<>>
    /\ epoch' = 0
    /\ tpc' = "epoch"
    /\ UNCHANGED <<model, requires_grad, pretrain_dict, i_batch, epoch_loss, calls>>
    /\ UNCHANGED <<featVars, dataVars, fwdVars, loadVars>>

\* for epoch in range(num_epoch): epoch_loss = np.empty(0, float)
EpochStart ==
    /\ tpc = "epoch"
    /\ epoch < num_epoch
    /\ epoch_loss' = <<>>
    /\ i_batch' = 0
    /\ tpc' = "batch"
    /\ UNCHANGED <<model, requires_grad, pretrain_dict, lr, opt_lr, opt_steps,
                   epoch, loss_list, calls>>
    /\ UNCHANGED <<featVars, dataVars, fwdVars, loadVars>>

\* a batch whose loss is also appended to loss_list
Batch_appends_to_loss_list ==
    /\ tpc = "batch"
    /\ i_batch < NumBatches
    /\ \E loss \in LossVals :
          /\ epoch_loss' = Append(epoch_loss, loss)
          /\ loss_list' = Append(loss_list, loss)
    /\ model' = optimizer_step(model, requires_grad)
    /\ opt_steps' = opt_steps + 1
    /\ i_batch' = i_batch + 1
    /\ UNCHANGED <<tpc, requires_grad, pretrain_dict, lr, opt_lr, epoch, calls>>
    /\ UNCHANGED <<featVars, dataVars, fwdVars, loadVars>>

\* lines 193-206: one batch: forward, loss, backward, clip, step, record the loss
Batch ==
    /\ tpc = "batch"
    /\ i_batch < NumBatches
    /\ \E loss \in LossVals : epoch_loss' = Append(epoch_loss, loss)
    /\ model' = optimizer_step(model, requires_grad)
    /\ opt_steps' = opt_steps + 1
    /\ i_batch' = i_batch + 1
    /\ UNCHANGED <<tpc, requires_grad, pretrain_dict, lr, opt_lr, epoch, loss_list, calls>>
    /\ UNCHANGED <<featVars, dataVars, fwdVars, loadVars>>

\* line 209: loss_list.append(np.mean(epoch_loss))
AppendLoss ==
    /\ tpc = "batch"
    /\ i_batch = NumBatches
    /\ loss_list' = Append(loss_list, np_mean(epoch_loss))
    /\ tpc' = "reduce_lr"
    /\ UNCHANGED <<model, requires_grad, pretrain_dict, lr, opt_lr, opt_steps,
                   epoch, i_batch, epoch_loss, calls>>
    /\ UNCHANGED <<featVars, dataVars, fwdVars, loadVars>>

\* line 210: lr = reduce_lr(loss_list, epoch, lr, optimizer); next epoch
ReduceLr ==
    /\ tpc = "reduce_lr"
    /\ LET r == reduce_lr(loss_list, epoch, lr, opt_lr)
       IN  lr' = r.lr /\ opt_lr' = r.group_lr
    /\ calls' = calls + 1
    /\ epoch' = epoch + 1
    /\ tpc' = "epoch"
    /\ UNCHANGED <<model, requires_grad, pretrain_dict, opt_steps, i_batch,
                   epoch_loss, loss_list>>
    /\ UNCHANGED <<featVars, dataVars, fwdVars, loadVars>>

\* lines 212-223: evaluation; loss_list is rebound to the test losses (one batch)
Evaluate ==
    /\ tpc = "epoch"
    /\ epoch = num_epoch
    /\ \E loss \in LossVals : loss_list' = <<loss>>
    /\ tpc' = "done"
    /\ UNCHANGED <<model, requires_grad, pretrain_dict, lr, opt_lr, opt_steps,
                   epoch, i_batch, epoch_loss, calls>>
    /\ UNCHANGED <<featVars, dataVars, fwdVars, loadVars>>

TrainNext ==
    \/ LoadModel
    \/ Freeze
    \/ NewOptimizer
    \/ EpochStart
    \/ Batch
    \/ AppendLoss
    \/ ReduceLr
    \/ Evaluate

SpecTrain == TrainInit /\ [][TrainNext]_vars

----------------------------------------------------------------------------
(* Claims about the training loop and reduce_lr *)

Training == tpc \in {"epoch", "batch", "reduce_lr"}

\* the average of the 4 absolute epoch-to-epoch changes before the change at
\* epoch e, times 4
PrecedingChanges4(list, e) ==
    LET change(k) == Abs(PyAt(list, k) - PyAt(list, k - 1))
    IN  change(e - 1) + change(e - 2) + change(e - 3) + change(e - 4)

NoImprovement(list, e) == PyAt(list, e) >= PyAt(list, e - 1)
SharpChange(list, e) ==
    4 * Abs(PyAt(list, e) - PyAt(list, e - 1)) > 3 * PrecedingChanges4(list, e)

\* C1 (as amended): a call of reduce_lr multiplies the learning rate by 0.95,
\* once, when epoch >= 1 and the epoch's loss is not below the previous epoch's,
\* or when epoch >= 5 and the absolute change exceeds 3 times the average of the
\* 4 preceding absolute changes; in every other case, which includes every call
\* at epoch 0, the learning rate is returned unchanged.
C1_DecayFromEpoch1And5 ==
    [][tpc = "reduce_lr" =>
          lr' = IF \/ epoch >= 1 /\ NoImprovement(loss_list, epoch)
                   \/ epoch >= 5 /\ SharpChange(loss_list, epoch)
                THEN Mul95(lr) ELSE lr]_vars

\* at epoch 5 the loss improved, yet changed sharply: decayed on the second
\* condition alone
C1_Witness ==
    /\ tpc = "epoch" /\ epoch = 6
    /\ loss_list = <<2, 1, 2, 2, 2, 0>>
    /\ lr = Mul95(Mul95(Mul95(Mul95(Lr0))))

\* C1 (original): at every epoch, the rate is multiplied by 0.95 exactly when
\* loss_list[epoch] >= loss_list[epoch-1] or the change is sharp, and is
\* otherwise unchanged.
C1_Original ==
    [][tpc = "reduce_lr" =>
          lr' = IF NoImprovement(loss_list, epoch) \/ SharpChange(loss_list, epoch)
                THEN Mul95(lr) ELSE lr]_vars

\* C2: every optimizer step leaves the parameters outside the head (embedding
\* and the graph convolution layers W) unchanged.
C2_OnlyHeadTrained ==
    [][opt_steps' # opt_steps =>
          \A k \in DOMAIN model : k[1] \notin HeadLayers => model'[k] = model[k]]_vars

\* progress of the loop: every step moves forward in (epoch, position, batch)
Position ==
    CASE tpc = "load_model" -> 0 [] tpc = "freeze" -> 1 [] tpc = "optimizer" -> 2
      [] tpc = "epoch" -> 3 + epoch * (NumBatches + 3)
      [] tpc = "batch" -> 3 + epoch * (NumBatches + 3) + 1 + i_batch
      [] tpc = "reduce_lr" -> 3 + epoch * (NumBatches + 3) + NumBatches + 2
      [] tpc = "done" -> 3 + num_epoch * (NumBatches + 3) + 1

C9_LoopShape ==
    /\ tpc = "epoch" =>
          /\ epoch <= num_epoch /\ Len(loss_list) = epoch /\ calls = epoch
          /\ opt_steps = epoch * NumBatches
    /\ tpc = "batch" =>
          /\ epoch < num_epoch /\ Len(loss_list) = epoch /\ calls = epoch
          /\ i_batch <= NumBatches /\ Len(epoch_loss) = i_batch
          /\ opt_steps = epoch * NumBatches + i_batch
    /\ tpc = "reduce_lr" =>
          /\ epoch < num_epoch /\ Len(loss_list) = epoch + 1 /\ calls = epoch
          /\ opt_steps = (epoch + 1) * NumBatches
          /\ reduce_lr_reads(epoch) \subseteq 0..(Len(loss_list) - 1)
          /\ epoch >= 5 => epoch - 5 \in reduce_lr_reads(epoch)
    /\ tpc = "done" =>
          /\ epoch = num_epoch /\ calls = num_epoch
          /\ opt_steps = num_epoch * NumBatches
    /\ tpc # "done" => ENABLED TrainNext

\* C9: every epoch makes one pass over the batches in order with one optimizer
\* step per batch, then appends the mean loss, then calls reduce_lr once; at
\* the call for epoch e the history holds e+1 entries and every index reduce_lr
\* reads is within it; the loop ends after exactly num_epoch epochs.
C9_OnePassPerEpoch ==
    /\ []C9_LoopShape
    /\ [][Position' > Position]_vars

\* the last call of reduce_lr read indices epoch-5 .. epoch of a full history
C9_Witness ==
    /\ tpc = "done"
    /\ calls = num_epoch
    /\ opt_steps = num_epoch * NumBatches
    /\ lr < Lr0

RECURSIVE Pow95(_, _)
Pow95(rate, d) == IF d = 0 THEN rate ELSE Mul95(Pow95(rate, d - 1))

\* C10: during training the learning rate never increases and is not decayed at
\* epoch 0; the lr of the loop equals the lr of the optimizer's parameter group;
\* after k epochs the rate is the initial rate times 0.95 to the number of
\* decays, which is at most k-1.
C10_RateSchedule ==
    /\ [](Training =>
            /\ lr = opt_lr
            /\ \E d \in 0..(IF calls = 0 THEN 0 ELSE calls - 1) : lr = Pow95(Lr0, d))
    /\ [][Training => lr' <= lr]_vars
    /\ [][(tpc = "reduce_lr" /\ epoch = 0) => lr' = lr]_vars

\* every epoch but the first decayed the rate
C10_Witness ==
    /\ tpc = "epoch" /\ epoch = num_epoch
    /\ lr = Pow95(Lr0, num_epoch - 1)
    /\ opt_lr = lr

====
